---- MODULE Spec2Model ----
(***************************************************************************)
(* Model of src/index.py: the cachetools TTL caches, the cursor chain of   *)
(* /search, the cached fetch functions, the concurrent image resolver and  *)
(* the image proxy with ImageProcessor.process_and_compress.               *)
(*                                                                         *)
(* Time is counted in units of 300 s, so ttl=300 is 1 and ttl=600 is 2.    *)
(* The capacities of the caches are scaled down (maxsize=100 -> 2, ...):   *)
(* eviction then happens after two further inserts instead of a hundred.   *)
(***************************************************************************)
EXTENDS Integers, Sequences, FiniteSets, TLC

VARIABLES now, catalog, pager, list_cache, pagination_cache, gallery_cache,
          thr, nextObj, budget, hist, img,
          image_proxy_cache, origin_image, px

vars == <<now, catalog, pager, list_cache, pagination_cache, gallery_cache,
          thr, nextObj, budget, hist, img,
          image_proxy_cache, origin_image, px>>

\* the state of /image/proxy: its cache, the images of the origin, the handler
proxy_vars == <<image_proxy_cache, origin_image, px>>

-----------------------------------------------------------------------------
(* Bounds of the model *)

\* the clock stops advancing at MaxTime
MaxTime == 2
\* galleries (one per listing page) a catalog may hold
MaxCatalog == 3
\* the largest page number a client asks for (0 is accepted by int())
MaxPage == 3
\* HTTP requests served in one behaviour
MaxRequests == 2
\* HTTP requests served in one behaviour of SpecChain
MaxChainRequests == 3
\* <a> tags of a preview page
MaxLinks == 5

\* ttl of list_cache, pagination_cache and gallery_cache, in units of 300 s
ListTTL == 1
PaginationTTL == 2
GalleryTTL == 2
\* maxsize of the caches, scaled down
ListMaxSize == 2
PaginationMaxSize == 2
GalleryMaxSize == 2
\* ThreadPoolExecutor(max_workers=MAX_CONCURRENT_REQUESTS), scaled down
MAX_CONCURRENT_REQUESTS == 2
\* ttl and maxsize of image_proxy_cache, scaled down
ProxyTTL == 2
ProxyMaxSize == 2
\* the largest width and height of a source image, and the largest w, of the
\* resize cases
MaxDim == 22

Threads == {1, 2}
Keywords == {"a"}
\* Cookie headers of the clients; "" is a request without a Cookie header
Cookies == {"", "sid=1", "igneous=EX"}
SITE_E == "e-hentai.org"
SITE_EX == "exhentai.org"
Domains == {SITE_E, SITE_EX}

\* Python's None where a next_id (a gallery id, >= 1) is expected
NoneId == 0

-----------------------------------------------------------------------------
(* cachetools.TTLCache: a sequence of entries in the order of __links      *)
(* (least recently used first); each entry carries its absolute expiry.    *)

Entry(k, v, e) == [key |-> k, value |-> v, expires |-> e]

HasKey(c, k) == \E i \in 1..Len(c) : c[i].key = k
IndexOf(c, k) == CHOOSE i \in 1..Len(c) : c[i].key = k
Without(c, k) == SelectSeq(c, LAMBDA e : e.key # k)

\* TTLCache.__contains__: present and timer() < link.expires
TTLContains(c, k, t) == HasKey(c, k) /\ t < c[IndexOf(c, k)].expires

\* TTLCache.__getlink: move_to_end in __links, whether or not it is expired
TTLTouch(c, k) == IF HasKey(c, k) THEN Append(Without(c, k), c[IndexOf(c, k)]) ELSE c

\* TTLCache.expire(time): drop every entry with not (time < expires)
TTLExpire(c, t) == SelectSeq(c, LAMBDA e : t < e.expires)

\* Cache.__setitem__'s "while currsize + size > maxsize: popitem()"
\* (TTLEvictNewest: the variant whose popitem takes the most recently used entry)
RECURSIVE TTLEvictNewest(_, _)
TTLEvictNewest(c, maxsize) ==
  IF Len(c) + 1 > maxsize /\ Len(c) > 0
  THEN TTLEvictNewest(SubSeq(c, 1, Len(c) - 1), maxsize) ELSE c
RECURSIVE TTLEvict(_, _)
TTLEvict(c, maxsize) == IF Len(c) + 1 > maxsize /\ Len(c) > 0 THEN TTLEvict(Tail(c), maxsize) ELSE c

\* TTLCache.__setitem__
TTLSetItem(c, k, v, t, ttl, maxsize) ==
  LET live == TTLExpire(c, t)
      room == IF HasKey(live, k) THEN Without(live, k) ELSE TTLEvict(live, maxsize)
  IN  Append(room, Entry(k, v, t + ttl))

\* the keys that TTLCache.__setitem__ evicts for capacity (live, least recently used)
TTLEvictedKeys(c, k, t, maxsize) ==
  LET live == TTLExpire(c, t)
      room == IF HasKey(live, k) THEN Without(live, k) ELSE TTLEvict(live, maxsize)
  IN  {live[i].key : i \in 1..Len(live)} \ ({room[i].key : i \in 1..Len(room)} \cup {k})

\* TTLCache.__getitem__ as a hit test, and the value of a hit
\* (TTLHitLate: the variant in which an entry still hits at its expiry instant)
TTLHitLate(c, k, t) == HasKey(c, k) /\ t <= c[IndexOf(c, k)].expires
TTLHit(c, k, t) == TTLContains(c, k, t)
TTLValue(c, k) == c[IndexOf(c, k)].value

-----------------------------------------------------------------------------
(* get_request_context and EhUrlBuilder *)

\* 'igneous=EX' in client_cookie
use_exhentai(cookie) == cookie = "igneous=EX"

\* EhUrlBuilder.__init__: self.domain
BuilderDomain(cookie) == IF use_exhentai(cookie) THEN SITE_EX ELSE SITE_E

\* the headers dict of get_request_context: the fixed User-Agent/Accept entries
\* are the same for every client and are left out; Cookie "" is an absent Cookie
RequestHeaders(cookie) == [Referer |-> BuilderDomain(cookie), Cookie |-> cookie]

\* EhUrlBuilder.build_search_url: the query holds f_search, and next when given
build_search_url(domain, keyword, next_id) ==
  [base |-> domain, f_search |-> keyword, next |-> next_id]

\* cachetools.keys.hashkey(url, headers) of @cached(cache=list_cache)
\* (ListKeyUrlOnly: the variant keyed by the URL alone)
ListKeyUrlOnly(url, headers) == <<url, [Referer |-> url.base, Cookie |-> ""]>>
ListKey(url, headers) == <<url, headers>>

\* f"{cache_key}_{page}" with cache_key = f"search_{keyword}"
\* (PaginationKeyNoPage: the variant whose key drops the page)
PaginationKeyNoPage(keyword, page) == <<keyword, 1>>
PaginationKey(keyword, page) == <<keyword, page>>

-----------------------------------------------------------------------------
(* The origin and EhParser.parse_gallery_list.  A catalog of n galleries   *)
(* has the ids 1..n; a listing page shows the newest gallery below the     *)
(* next= id (one gallery per page) and links to next=<its id> when an      *)
(* older gallery exists.                                                   *)

Below(n, next_id) == {g \in 1..n : next_id = NoneId \/ g < next_id}

Max(S) == CHOOSE x \in S : \A y \in S : y <= x

\* the value get_gallery_list_data returns; ok = FALSE is Python's None.
\* src records the request that was sent to the origin for it.  The value is a
\* dict that the cache and the callers share by reference: obj names the object
\* (0: None, or a dict without galleries, which nothing writes to), and
\* thumbnail_proxy is the host in the 'thumbnail_proxy' item of its gallery
\* dicts ("" while they have none; the parser sets 'thumbnail' only, lines 100-103).
ListResult(ok, table, galleries, has_next, next_id, url, headers) ==
  [ok |-> ok, table |-> table, galleries |-> galleries, has_next |-> has_next,
   next_id |-> next_id, src |-> [url |-> url, headers |-> headers],
   obj |-> 0, thumbnail_proxy |-> ""]

\* the value as parse_gallery_list made it
AsParsed(v) == [v EXCEPT !.obj = 0, !.thumbnail_proxy = ""]

\* fetch_page_for_request failed: get_gallery_list_data returns None
NoneResult(url, headers) == ListResult(FALSE, FALSE, <<>>, FALSE, NoneId, url, headers)

\* fetch_page_for_request succeeded and parse_gallery_list parsed the page; a page
\* without the 'itg gltc' table (lines 82-85) gives no gallery and no pagination.
\* Lines 129-139: has_next is set when the pager has an <a id="unext"> or an <a>
\* with the text '>' that has an href, and next_id only when PATTERN_NEXT_ID
\* finds next=<digits> in that href.  pager is the form of the origin's hrefs:
\* "next=" (div.searchnav, ?next=<id>) or "page=" (table.ptt, ?page=<n>)
\* (ParsedListOrNone: the variant in which such a page counts as a failure)
ParsedListOrNone(n, url, headers) ==
  LET S == Below(n, url.next)
  IN  IF S = {}
      THEN ListResult(FALSE, FALSE, <<>>, FALSE, NoneId, url, headers)
      ELSE LET g == Max(S)
               more == \E h \in 1..n : h < g
           IN  ListResult(TRUE, TRUE, <<g>>, more,
                          IF more /\ pager = "next=" THEN g ELSE NoneId, url, headers)
ParsedList(n, url, headers) ==
  LET S == Below(n, url.next)
  IN  IF S = {}
      THEN ListResult(TRUE, FALSE, <<>>, FALSE, NoneId, url, headers)
      ELSE LET g == Max(S)
               more == \E h \in 1..n : h < g
           IN  ListResult(TRUE, TRUE, <<g>>, more,
                          IF more /\ pager = "next=" THEN g ELSE NoneId, url, headers)

\* the next= id that the page p of a catalog of n galleries links to
CursorOfPage(n, p) == IF p >= 1 /\ p < n THEN n - p + 1 ELSE NoneId

-----------------------------------------------------------------------------
(* Request threads *)

\* request.host_url of the clients: the address they reach the server under
OneHost == {"one.example"}
ApiHosts == {"one.example", "two.example"}

NoResp == [status |-> 0, cookie |-> "", host |-> "", cover |-> "", keyword |-> "a", page |-> 0, galleries |-> <<>>,
           has_more |-> FALSE, next_used |-> NoneId, fetches |-> 0, cold |-> FALSE, at |-> -1,
           images |-> <<>>, title |-> ""]

NoCall == [key |-> ListKey(build_search_url(SITE_E, "a", NoneId), RequestHeaders("")),
           at |-> -1, hit |-> FALSE, fetched |-> FALSE, done |-> FALSE,
           prevAt |-> -1, prevEvicted |-> FALSE, same |-> TRUE, urlAt |-> -1,
           netok |-> TRUE]

\* a gallery: (gid, token) as parse_id returns them
Items == {<<1, "ab">>, <<2, "cd">>}
NoItem == <<0, "">>

\* what get_gallery_images_data returns: a list, or None (none = TRUE)
ImagesValue(none, list) == [none |-> none, list |-> list]
NoImages == ImagesValue(TRUE, <<>>)

\* what get_gallery_detail_data returns: the parsed dict, or None (ok = FALSE)
DetailValue(ok, title) == [ok |-> ok, title |-> title]
NoDetail == DetailValue(FALSE, "")

NoGCall == [kind |-> "", at |-> -1, hit |-> FALSE, fetched |-> FALSE,
            prevAt |-> -1, prevEvicted |-> FALSE]

IdleThread ==
  [pc |-> "idle", cookie |-> "", keyword |-> "a", page |-> 0, p |-> 0,
   next_id |-> NoneId, from |-> 0, url |-> build_search_url(SITE_E, "a", NoneId),
   ret |-> "idle", result |-> NoneResult(build_search_url(SITE_E, "a", NoneId), RequestHeaders("")),
   resp |-> NoResp, call |-> NoCall, fetches |-> 0, builder |-> 0, cold |-> FALSE,
   item |-> NoItem, chapter |-> 0, images |-> NoImages, detail |-> NoDetail,
   gcall |-> NoGCall, inside |-> "", by |-> "", host |-> ""]

\* every key of list_cache that a request of the model can form
ListKeys ==
  {ListKey(build_search_url(BuilderDomain(c), k, n), RequestHeaders(c)) :
     c \in Cookies, k \in Keywords, n \in 0..MaxCatalog}

NoStore == [at |-> -1, evicted |-> FALSE, ok |-> FALSE]

-----------------------------------------------------------------------------
(* pagination_cache: the value of a link is the next_id; from names the    *)
(* page whose link was attached to the request that produced it (0 for a   *)
(* request without next=), and by the Cookie header of the client whose    *)
(* request stored it.                                                      *)

Link(next_id, from, by) == [next_id |-> next_id, from |-> from, by |-> by]

\* pagination_cache.get(key): Cache.get is "self[key] if key in self else None"
PaginationGet(c, keyword, page, t) ==
  IF TTLContains(c, PaginationKey(keyword, page), t)
  THEN TTLValue(c, PaginationKey(keyword, page)).next_id
  ELSE NoneId

\* the Cookie header of the request that stored the link which that get returns;
\* own, the caller's, when it returns None
PaginationBy(c, keyword, page, t, own) ==
  IF TTLContains(c, PaginationKey(keyword, page), t)
  THEN TTLValue(c, PaginationKey(keyword, page)).by
  ELSE own

\* the cache after that get: only a live entry reaches __getitem__ and is touched
PaginationAfterGet(c, keyword, page, t) ==
  IF TTLContains(c, PaginationKey(keyword, page), t)
  THEN TTLTouch(c, PaginationKey(keyword, page))
  ELSE c

\* pagination_cache[key] = next_id
PaginationPut(c, keyword, page, next_id, from, by, t) ==
  TTLSetItem(c, PaginationKey(keyword, page), Link(next_id, from, by), t,
             PaginationTTL, PaginationMaxSize)

-----------------------------------------------------------------------------
(* /search, lines 643-704 *)

\* what the handler returns, with the request it answers
Response(t, status, galleries, has_more, next_used) ==
  [status |-> status, cookie |-> thr[t].cookie, host |-> thr[t].host, cover |-> "",
   keyword |-> thr[t].keyword,
   page |-> thr[t].page, galleries |-> galleries, has_more |-> has_more,
   next_used |-> next_used, fetches |-> thr[t].fetches, cold |-> thr[t].cold, at |-> now,
   images |-> <<>>, title |-> ""]

\* the thread after it returned a response: its locals are gone
Responded(t, resp) ==
  [IdleThread EXCEPT !.resp = resp, !.call = thr[t].call, !.gcall = thr[t].gcall]

\* lines 646-659 and, when the link is there or page <= 1, line 676
search(t, cookie, keyword, page, host) ==
  /\ thr[t].pc = "idle"
  /\ budget > 0
  /\ budget' = budget - 1
  /\ nextObj' = nextObj + 1
  /\ LET next_id == IF page > 1 THEN PaginationGet(pagination_cache, keyword, page - 1, now)
                    ELSE NoneId
         walk == page > 1 /\ next_id = NoneId
         domain == BuilderDomain(cookie)
     IN  /\ pagination_cache' = IF page > 1
                                THEN PaginationAfterGet(pagination_cache, keyword, page - 1, now)
                                ELSE pagination_cache
         /\ thr' = [thr EXCEPT ![t] =
              [@ EXCEPT !.inside = "", !.pc = IF walk THEN "walk" ELSE "list_lookup",
                        !.cookie = cookie, !.keyword = keyword, !.page = page,
                        !.host = host,
                        !.p = IF walk THEN 1 ELSE 0,
                        !.next_id = next_id,
                        !.from = IF next_id = NoneId THEN 0 ELSE page - 1,
                        !.by = IF page > 1
                               THEN PaginationBy(pagination_cache, keyword, page - 1, now, cookie)
                               ELSE cookie,
                        !.url = build_search_url(domain, keyword, next_id),
                        !.ret = "final_ret",
                        !.resp = NoResp, !.fetches = 0, !.builder = nextObj + 1,
                        !.cold = pagination_cache = <<>>]]
  /\ UNCHANGED <<now, catalog, pager, list_cache, gallery_cache, hist, img, proxy_vars>>

\* lines 662-664: the predecessor's link, the URL, and the call
search_walk(t) ==
  /\ thr[t].pc = "walk"
  /\ LET p == thr[t].p
         prev_next_id == IF p > 1
                         THEN PaginationGet(pagination_cache, thr[t].keyword, p - 1, now)
                         ELSE NoneId
     IN  /\ pagination_cache' = IF p > 1
                                THEN PaginationAfterGet(pagination_cache, thr[t].keyword, p - 1, now)
                                ELSE pagination_cache
         /\ thr' = [thr EXCEPT ![t] =
              [@ EXCEPT !.inside = "", !.pc = "list_lookup", !.ret = "walk_ret",
                        !.from = IF prev_next_id = NoneId THEN 0 ELSE p - 1,
                        !.by = IF p > 1
                               THEN PaginationBy(pagination_cache, thr[t].keyword, p - 1, now,
                                                 thr[t].cookie)
                               ELSE thr[t].cookie,
                        !.url = build_search_url(BuilderDomain(thr[t].cookie),
                                                 thr[t].keyword, prev_next_id)]]
  /\ UNCHANGED <<now, catalog, pager, list_cache, gallery_cache, nextObj, budget, hist, img, proxy_vars>>

\* lines 665-672 and the loop's step
search_walk_ret(t) ==
  /\ thr[t].pc = "walk_ret"
  /\ LET r == thr[t].result
         p == thr[t].p
     IN  IF ~r.ok
         THEN /\ thr' = [thr EXCEPT ![t] =
                   Responded(t, Response(t, 500, <<>>, FALSE, NoneId))]
              /\ UNCHANGED pagination_cache
         ELSE IF r.next_id # NoneId
         THEN /\ pagination_cache' = PaginationPut(pagination_cache, thr[t].keyword, p,
                                                   r.next_id, thr[t].from, thr[t].cookie, now)
              /\ thr' = [thr EXCEPT ![t] =
                   [@ EXCEPT !.inside = "", !.pc = IF p + 1 < thr[t].page THEN "walk" ELSE "final_get",
                             !.p = p + 1]]
         ELSE /\ thr' = [thr EXCEPT ![t] =
                   Responded(t, Response(t, 404, <<>>, FALSE, NoneId))]
              /\ UNCHANGED pagination_cache
  /\ UNCHANGED <<now, catalog, pager, list_cache, gallery_cache, nextObj, budget, hist, img, proxy_vars>>

\* lines 674-677: the lookup after the walk, the URL, and the call
search_final_get(t) ==
  /\ thr[t].pc = "final_get"
  /\ LET next_id == PaginationGet(pagination_cache, thr[t].keyword, thr[t].page - 1, now)
     IN  /\ pagination_cache' = PaginationAfterGet(pagination_cache, thr[t].keyword,
                                                   thr[t].page - 1, now)
         /\ thr' = [thr EXCEPT ![t] =
              [@ EXCEPT !.inside = "", !.pc = "list_lookup", !.ret = "final_ret",
                        !.next_id = next_id,
                        !.from = IF next_id = NoneId THEN 0 ELSE thr[t].page - 1,
                        !.by = PaginationBy(pagination_cache, thr[t].keyword, thr[t].page - 1,
                                            now, thr[t].cookie),
                        !.url = build_search_url(BuilderDomain(thr[t].cookie),
                                                 thr[t].keyword, next_id)]]
  /\ UNCHANGED <<now, catalog, pager, list_cache, gallery_cache, nextObj, budget, hist, img, proxy_vars>>

\* the objects of the listing dicts that threads or list_cache refer to
ObjectsInUse ==
  {thr[t].result.obj : t \in Threads} \cup {list_cache[i].value.obj : i \in 1..Len(list_cache)}

\* a name for a new object
FreshObj ==
  CHOOSE n \in 1..(Cardinality(ObjectsInUse) + 1) :
    n \notin ObjectsInUse /\ \A m \in 1..(n - 1) : m \in ObjectsInUse

\* gallery['thumbnail_proxy'] = f"{api_url}/image/proxy?..." on the object obj:
\* every reference to the object sees the item
Written(v, obj, host) == IF v.obj = obj THEN [v EXCEPT !.thumbnail_proxy = host] ELSE v

\* lines 678-688: the link of the page, and the write of thumbnail_proxy into the
\* gallery dict of the result
search_final_ret(t) ==
  /\ thr[t].pc = "final_ret"
  /\ LET r == thr[t].result
     IN  IF ~r.ok
         THEN /\ thr' = [thr EXCEPT ![t] =
                   Responded(t, Response(t, 500, <<>>, FALSE, thr[t].next_id))]
              /\ UNCHANGED <<pagination_cache, list_cache>>
         ELSE /\ pagination_cache' =
                   IF r.next_id # NoneId
                   THEN PaginationPut(pagination_cache, thr[t].keyword, thr[t].page,
                                      r.next_id, thr[t].from, thr[t].cookie, now)
                   ELSE pagination_cache
              /\ IF r.galleries = <<>>
                 THEN /\ thr' = [thr EXCEPT ![t] = [@ EXCEPT !.inside = "", !.pc = "results"]]
                      /\ UNCHANGED list_cache
                 ELSE /\ thr' = [u \in Threads |->
                           IF u = t
                           THEN [thr[t] EXCEPT !.inside = "", !.pc = "results",
                                               !.result = Written(r, r.obj, thr[t].host)]
                           ELSE [thr[u] EXCEPT !.result = Written(@, r.obj, thr[t].host)]]
                      /\ list_cache' = [i \in 1..Len(list_cache) |->
                           [list_cache[i] EXCEPT !.value = Written(@, r.obj, thr[t].host)]]
  /\ UNCHANGED <<now, catalog, pager, gallery_cache, nextObj, budget, hist, img, proxy_vars>>

\* lines 690-703: cover_url is gallery.get('thumbnail_proxy') or
\* gallery.get('thumbnail'), read from the gallery dict, and the response
search_results(t) ==
  /\ thr[t].pc = "results"
  /\ LET r == thr[t].result
     IN  thr' = [thr EXCEPT ![t] =
           Responded(t, [Response(t, 200, r.galleries, r.has_next, thr[t].next_id)
                           EXCEPT !.cover = r.thumbnail_proxy])]
  /\ UNCHANGED <<now, catalog, pager, list_cache, pagination_cache, gallery_cache, nextObj, budget, hist, img, proxy_vars>>

-----------------------------------------------------------------------------
(* get_gallery_list_data under @cached(cache=list_cache), lines 294-304.   *)
(* cachetools' wrapper: try cache[k]; on KeyError v = func(...); cache[k]  *)
(* = v; return v.  No lock is given, so the three steps are separate.      *)

\* the value that the last store under the key k put into list_cache
StoredValue(k, ok) ==
  IF ok THEN ParsedList(catalog[k[1].base], k[1], k[2]) ELSE NoneResult(k[1], k[2])

\* when list_cache last stored a value for the URL, under whatever headers, that
\* has not been evicted for capacity since; -1 when there is none
LastStoreOfUrl(url) ==
  LET S == {hist.lstore[x].at : x \in {y \in ListKeys : y[1] = url /\ ~hist.lstore[y].evicted}}
  IN  Max(S \cup {-1})

\* "return cache[k]"
\* (list_lookup_single_flight: the variant in which a call waits while another
\* thread computes the value of the same key)
list_lookup_single_flight(t) ==
  /\ thr[t].pc = "list_lookup"
  /\ ~\E u \in Threads \ {t} :
        /\ thr[u].pc \in {"list_fetch", "list_store"}
        /\ thr[u].url = thr[t].url /\ thr[u].cookie = thr[t].cookie
  /\ LET k == ListKey(thr[t].url, RequestHeaders(thr[t].cookie))
         hit == TTLHit(list_cache, k, now)
         call == [key |-> k, at |-> now, hit |-> hit, fetched |-> FALSE, done |-> hit,
                  prevAt |-> hist.lstore[k].at, prevEvicted |-> hist.lstore[k].evicted,
                  same |-> hit => AsParsed(TTLValue(list_cache, k)) = StoredValue(k, hist.lstore[k].ok),
                  urlAt |-> LastStoreOfUrl(thr[t].url), netok |-> TRUE]
     IN  /\ list_cache' = TTLTouch(list_cache, k)
         /\ thr' = [thr EXCEPT ![t] =
              [@ EXCEPT !.inside = "", !.pc = IF hit THEN thr[t].ret ELSE "list_fetch",
                        !.result = IF hit THEN TTLValue(list_cache, k) ELSE @,
                        !.call = call]]
  /\ UNCHANGED <<now, catalog, pager, pagination_cache, gallery_cache, nextObj, budget, hist, img, proxy_vars>>
list_lookup(t) ==
  /\ thr[t].pc = "list_lookup"
  /\ LET k == ListKey(thr[t].url, RequestHeaders(thr[t].cookie))
         hit == TTLHit(list_cache, k, now)
         call == [key |-> k, at |-> now, hit |-> hit, fetched |-> FALSE, done |-> hit,
                  prevAt |-> hist.lstore[k].at, prevEvicted |-> hist.lstore[k].evicted,
                  same |-> hit => AsParsed(TTLValue(list_cache, k)) = StoredValue(k, hist.lstore[k].ok),
                  urlAt |-> LastStoreOfUrl(thr[t].url), netok |-> TRUE]
     IN  /\ list_cache' = TTLTouch(list_cache, k)
         /\ thr' = [thr EXCEPT ![t] =
              [@ EXCEPT !.inside = "", !.pc = IF hit THEN thr[t].ret ELSE "list_fetch",
                        !.result = IF hit THEN TTLValue(list_cache, k) ELSE @,
                        !.call = call]]
  /\ UNCHANGED <<now, catalog, pager, pagination_cache, gallery_cache, nextObj, budget, hist, img, proxy_vars>>

\* the body: fetch_page_for_request, then parse_gallery_list or None
list_fetch(t, ok) ==
  /\ thr[t].pc = "list_fetch"
  /\ LET h == RequestHeaders(thr[t].cookie)
         parsed == ParsedList(catalog[thr[t].url.base], thr[t].url, h)
     IN  thr' = [thr EXCEPT ![t] =
           [@ EXCEPT !.inside = "", !.pc = "list_store",
                     !.result = IF ~ok THEN NoneResult(thr[t].url, h)
                                ELSE IF parsed.galleries = <<>> THEN parsed
                                ELSE [parsed EXCEPT !.obj = FreshObj],
                     !.fetches = @ + 1,
                     !.call = [@ EXCEPT !.fetched = TRUE, !.netok = ok]]]
  /\ UNCHANGED <<now, catalog, pager, list_cache, pagination_cache, gallery_cache, nextObj, budget, hist, img, proxy_vars>>

\* "cache[k] = v; return v"
list_store(t) ==
  /\ thr[t].pc = "list_store"
  /\ LET k == ListKey(thr[t].url, RequestHeaders(thr[t].cookie))
         gone == TTLEvictedKeys(list_cache, k, now, ListMaxSize)
     IN  /\ list_cache' = TTLSetItem(list_cache, k, thr[t].result, now, ListTTL, ListMaxSize)
         /\ hist' = [hist EXCEPT !.lstore =
              [x \in ListKeys |->
                 IF x = k THEN [at |-> now, evicted |-> FALSE, ok |-> thr[t].result.ok]
                 ELSE IF x \in gone THEN [hist.lstore[x] EXCEPT !.evicted = TRUE]
                 ELSE hist.lstore[x]]]
         /\ thr' = [thr EXCEPT ![t] =
              [@ EXCEPT !.inside = "", !.pc = thr[t].ret, !.call = [@ EXCEPT !.done = TRUE]]]
  /\ UNCHANGED <<now, catalog, pager, pagination_cache, gallery_cache, nextObj, budget, img, proxy_vars>>

-----------------------------------------------------------------------------
(* get_gallery_images_data, lines 323-358: the preview page, the pool of   *)
(* fetch_and_parse_image_url tasks and the as_completed loop.              *)
(* A preview page is the sequence of its <a> tags in #gdt; TRUE is a tag   *)
(* whose <div> carries the style that PATTERN_STYLE_DETAILS matches.       *)

RECURSIVE SeqsUpTo(_, _)
SeqsUpTo(S, n) ==
  IF n = 0 THEN {<< >>}
  ELSE LET shorter == SeqsUpTo(S, n - 1)
       IN  shorter \cup {Append(q, x) : q \in {r \in shorter : Len(r) = n - 1}, x \in S}

PreviewPages == SeqsUpTo(BOOLEAN, MaxLinks)

\* EhParser.parse_preview_images, lines 206-217: index is the position of the
\* <a> tag among all the tags, and a tag without the style is skipped
RECURSIVE parse_preview_images_from(_, _)
parse_preview_images_from(atags, i) ==
  IF i > Len(atags) THEN << >>
  ELSE IF atags[i] THEN <<[index |-> i - 1]>> \o parse_preview_images_from(atags, i + 1)
  ELSE parse_preview_images_from(atags, i + 1)

parse_preview_images(atags) == parse_preview_images_from(atags, 1)

\* None in final_images
NoImage == [index |-> -1, item |-> -1]

\* line 356: final_images[index] = {'index': index, ...}; an index outside the
\* list raises IndexError, which line 357 logs, and the list stays as it was
\* (StoreAppend: the variant that appends in completion order)
StoreAppend(final_images, index, item) ==
  LET free == {i \in 1..Len(final_images) : final_images[i] = NoImage}
  IN  IF free = {} THEN final_images
      ELSE [final_images EXCEPT ![CHOOSE i \in free : \A j \in free : i <= j] =
              [index |-> index, item |-> item]]
StoreImage(final_images, index, item) ==
  IF index + 1 \in 1..Len(final_images)
  THEN [final_images EXCEPT ![index + 1] = [index |-> index, item |-> item]]
  ELSE final_images

\* line 358: [img for img in final_images if img is not None]
NotNone(final_images) == SelectSeq(final_images, LAMBDA e : e # NoImage)

\* what get_gallery_images_data returns for a preview list and the outcome of
\* each task ("ok": an image URL, "none": no URL, "exc": the task raised)
RECURSIVE CollectAll(_, _, _, _)
CollectAll(final_images, preview_list, outcome, j) ==
  IF j > Len(preview_list) THEN final_images
  ELSE CollectAll(IF outcome[j] = "ok"
                  THEN StoreImage(final_images, preview_list[j].index, preview_list[j].index)
                  ELSE final_images,
                  preview_list, outcome, j + 1)

ResolveImages(preview_list, outcome) ==
  NotNone(CollectAll([j \in 1..Len(preview_list) |-> NoImage], preview_list, outcome, 1))

ImagesIdle(atags) ==
  [pc |-> "idle", atags |-> atags, preview_list |-> << >>, final_images |-> << >>,
   task |-> << >>, order |-> << >>, result |-> << >>, none |-> FALSE]

\* lines 325-337 and 348: the preview page is fetched and parsed, the slots are
\* allocated and every task is submitted
images_start(ok) ==
  /\ img.pc = "idle"
  /\ LET preview_list == parse_preview_images(img.atags)
     IN  img' = IF ~ok THEN [img EXCEPT !.pc = "done", !.none = TRUE]
                ELSE IF preview_list = << >> THEN [img EXCEPT !.pc = "done"]
                ELSE [img EXCEPT !.pc = "pool", !.preview_list = preview_list,
                                 !.final_images = [j \in 1..Len(preview_list) |-> NoImage],
                                 !.task = [j \in 1..Len(preview_list) |-> "queued"]]
  /\ UNCHANGED <<now, catalog, pager, list_cache, pagination_cache, gallery_cache, thr, nextObj, budget, hist, proxy_vars>>

Running == {j \in 1..Len(img.task) : img.task[j] = "running"}
Queued == {j \in 1..Len(img.task) : img.task[j] = "queued"}
Finished == {j \in 1..Len(img.task) : img.task[j] \in {"ok", "none", "exc"}}

\* a free worker of the pool takes the next task off the queue
\* (task_start_unbounded: the variant of a pool without a limit of workers)
task_start_unbounded ==
  /\ img.pc = "pool"
  /\ Queued # {}
  /\ img' = [img EXCEPT !.task[CHOOSE j \in Queued : \A k \in Queued : j <= k] = "running"]
  /\ UNCHANGED <<now, catalog, pager, list_cache, pagination_cache, gallery_cache, thr, nextObj, budget, hist, proxy_vars>>
task_start ==
  /\ img.pc = "pool"
  /\ Queued # {}
  /\ Cardinality(Running) < MAX_CONCURRENT_REQUESTS
  /\ img' = [img EXCEPT !.task[CHOOSE j \in Queued : \A k \in Queued : j <= k] = "running"]
  /\ UNCHANGED <<now, catalog, pager, list_cache, pagination_cache, gallery_cache, thr, nextObj, budget, hist, proxy_vars>>

\* fetch_and_parse_image_url, lines 338-345, ends: with a URL, without one, or
\* by raising
task_finish(j, outcome) ==
  /\ img.pc = "pool"
  /\ j \in Running
  /\ img' = [img EXCEPT !.task[j] = outcome]
  /\ UNCHANGED <<now, catalog, pager, list_cache, pagination_cache, gallery_cache, thr, nextObj, budget, hist, proxy_vars>>

\* one round of the as_completed loop, lines 349-357
\* (images_collect_abort: the variant without the try/except of lines 351-357, in
\* which the exception of a task ends the call)
images_collect_abort(j) ==
  /\ img.pc = "pool"
  /\ j \in Finished
  /\ img' = IF img.task[j] = "exc"
            THEN [img EXCEPT !.pc = "done", !.none = TRUE, !.order = Append(@, j)]
            ELSE [img EXCEPT
                   !.task[j] = IF img.task[j] = "ok" THEN "got" ELSE "lost",
                   !.order = Append(@, j),
                   !.final_images = IF img.task[j] = "ok"
                                    THEN StoreImage(@, img.preview_list[j].index,
                                                    img.preview_list[j].index)
                                    ELSE @]
  /\ UNCHANGED <<now, catalog, pager, list_cache, pagination_cache, gallery_cache, thr, nextObj, budget, hist, proxy_vars>>
images_collect(j) ==
  /\ img.pc = "pool"
  /\ j \in Finished
  /\ img' = [img EXCEPT
       !.task[j] = IF img.task[j] = "ok" THEN "got" ELSE "lost",
       !.order = Append(@, j),
       !.final_images = IF img.task[j] = "ok"
                        THEN StoreImage(@, img.preview_list[j].index, img.preview_list[j].index)
                        ELSE @]
  /\ UNCHANGED <<now, catalog, pager, list_cache, pagination_cache, gallery_cache, thr, nextObj, budget, hist, proxy_vars>>

\* line 358, once every future has been yielded
\* (images_return_early: the variant that returns once no task waits in the queue,
\* abandoning the tasks that still run)
images_return_early ==
  /\ img.pc = "pool"
  /\ Queued = {}
  /\ img' = [img EXCEPT !.pc = "done", !.result = NotNone(img.final_images)]
  /\ UNCHANGED <<now, catalog, pager, list_cache, pagination_cache, gallery_cache, thr, nextObj, budget, hist, proxy_vars>>
images_return ==
  /\ img.pc = "pool"
  /\ \A j \in 1..Len(img.task) : img.task[j] \in {"got", "lost"}
  /\ img' = [img EXCEPT !.pc = "done", !.result = NotNone(img.final_images)]
  /\ UNCHANGED <<now, catalog, pager, list_cache, pagination_cache, gallery_cache, thr, nextObj, budget, hist, proxy_vars>>

-----------------------------------------------------------------------------
(* get_gallery_detail_data and get_gallery_images_data under                *)
(* @cached(cache=gallery_cache), and the routes /comic and /photo.          *)
(* The url_builder argument is the EhUrlBuilder that get_request_context    *)
(* constructs for the request; the class defines neither __eq__ nor         *)
(* __hash__, so in a key it is equal to itself only.  builder is the        *)
(* identity of that object.                                                 *)

\* hashkey(gid, token, headers, url_builder)
DetailKey(gid, token, headers, builder) == <<gid, token, headers, builder>>
\* hashkey(gid, token, page, headers, url_builder)
ImagesKey(gid, token, page, headers, builder) == <<gid, token, page, headers, builder>>

\* what the spec calls the key: the item, and the page index (-1 for the detail)
GalleryIds == {<<item, page>> : item \in Items, page \in {-1, 0, 1}}
GalleryIdOf(k) == IF Len(k) = 4 THEN <<<<k[1], k[2]>>, -1>> ELSE <<<<k[1], k[2]>>, k[3]>>

GCall(kind, id, hit) ==
  [kind |-> kind, at |-> now, hit |-> hit, fetched |-> FALSE,
   prevAt |-> hist.gstore[id].at, prevEvicted |-> hist.gstore[id].evicted]

\* hist.gstore after gallery_cache[k] = v
GStored(k, ok) ==
  LET gone == {GalleryIdOf(x) : x \in TTLEvictedKeys(gallery_cache, k, now, GalleryMaxSize)}
  IN  [x \in GalleryIds |->
         IF x = GalleryIdOf(k) THEN [at |-> now, evicted |-> FALSE, ok |-> ok]
         ELSE IF x \in gone THEN [hist.gstore[x] EXCEPT !.evicted = TRUE]
         ELSE hist.gstore[x]]

\* /comic/<id>, lines 709-715
gallery_detail(t, cookie, item) ==
  /\ thr[t].pc = "idle"
  /\ budget > 0
  /\ budget' = budget - 1
  /\ nextObj' = nextObj + 1
  /\ thr' = [thr EXCEPT ![t] =
       [@ EXCEPT !.inside = "", !.pc = "detail_lookup", !.ret = "comic_ret", !.cookie = cookie,
                 !.item = item, !.resp = NoResp, !.fetches = 0, !.builder = nextObj + 1]]
  /\ UNCHANGED <<now, catalog, pager, list_cache, pagination_cache, gallery_cache, hist, img, proxy_vars>>

\* /photo/<id>/<chapter>, lines 745-750
gallery_images(t, cookie, item, chapter) ==
  /\ thr[t].pc = "idle"
  /\ budget > 0
  /\ budget' = budget - 1
  /\ nextObj' = nextObj + 1
  /\ thr' = [thr EXCEPT ![t] =
       [@ EXCEPT !.inside = "", !.pc = "images_lookup", !.cookie = cookie, !.item = item,
                 !.chapter = chapter, !.resp = NoResp, !.fetches = 0,
                 !.builder = nextObj + 1]]
  /\ UNCHANGED <<now, catalog, pager, list_cache, pagination_cache, gallery_cache, hist, img, proxy_vars>>

\* get_gallery_images_data: "return cache[k]"
images_lookup(t) ==
  /\ thr[t].pc = "images_lookup"
  /\ LET k == ImagesKey(thr[t].item[1], thr[t].item[2], thr[t].chapter,
                        RequestHeaders(thr[t].cookie), thr[t].builder)
         hit == TTLHit(gallery_cache, k, now)
     IN  /\ gallery_cache' = TTLTouch(gallery_cache, k)
         /\ thr' = [thr EXCEPT ![t] =
              [@ EXCEPT !.inside = "", !.pc = IF hit THEN "photo_mid" ELSE "images_body",
                        !.images = IF hit THEN TTLValue(gallery_cache, k) ELSE @,
                        !.gcall = GCall("images", <<thr[t].item, thr[t].chapter>>, hit)]]
  /\ UNCHANGED <<now, catalog, pager, list_cache, pagination_cache, nextObj, budget, hist, img, proxy_vars>>

\* get_gallery_images_data's body, lines 325-358: the preview page of the origin
\* (img.atags), and an outcome for each task of the pool
images_body(t, ok) ==
  /\ thr[t].pc = "images_body"
  /\ LET preview_list == parse_preview_images(img.atags)
     IN  \E outcome \in [1..Len(preview_list) -> {"ok", "none", "exc"}] :
           thr' = [thr EXCEPT ![t] =
              [@ EXCEPT !.inside = "", !.pc = "images_store",
                        !.images = IF ok THEN ImagesValue(FALSE, ResolveImages(preview_list, outcome))
                                   ELSE NoImages,
                        !.fetches = @ + 1,
                        !.gcall = [@ EXCEPT !.fetched = TRUE]]]
  /\ UNCHANGED <<now, catalog, pager, list_cache, pagination_cache, gallery_cache, nextObj, budget, hist, img, proxy_vars>>

\* get_gallery_images_data: "cache[k] = v; return v"
images_store(t) ==
  /\ thr[t].pc = "images_store"
  /\ LET k == ImagesKey(thr[t].item[1], thr[t].item[2], thr[t].chapter,
                        RequestHeaders(thr[t].cookie), thr[t].builder)
     IN  /\ gallery_cache' = TTLSetItem(gallery_cache, k, thr[t].images, now,
                                        GalleryTTL, GalleryMaxSize)
         /\ hist' = [hist EXCEPT !.gstore = GStored(k, ~thr[t].images.none)]
         /\ thr' = [thr EXCEPT ![t] = [@ EXCEPT !.inside = "", !.pc = "photo_mid"]]
  /\ UNCHANGED <<now, catalog, pager, list_cache, pagination_cache, nextObj, budget, img, proxy_vars>>

\* line 751, and the call of line 753
photo_mid(t) ==
  /\ thr[t].pc = "photo_mid"
  /\ thr' = [thr EXCEPT ![t] =
       IF thr[t].images.none
       THEN Responded(t, [Response(t, 500, <<>>, FALSE, NoneId) EXCEPT !.page = thr[t].chapter])
       ELSE [@ EXCEPT !.inside = "", !.pc = "detail_lookup", !.ret = "photo_ret"]]
  /\ UNCHANGED <<now, catalog, pager, list_cache, pagination_cache, gallery_cache, nextObj, budget, hist, img, proxy_vars>>

\* get_gallery_detail_data: "return cache[k]"
detail_lookup(t) ==
  /\ thr[t].pc = "detail_lookup"
  /\ LET k == DetailKey(thr[t].item[1], thr[t].item[2],
                        RequestHeaders(thr[t].cookie), thr[t].builder)
         hit == TTLHit(gallery_cache, k, now)
     IN  /\ gallery_cache' = TTLTouch(gallery_cache, k)
         /\ thr' = [thr EXCEPT ![t] =
              [@ EXCEPT !.inside = "", !.pc = IF hit THEN thr[t].ret ELSE "detail_body",
                        !.detail = IF hit THEN TTLValue(gallery_cache, k) ELSE @,
                        !.gcall = GCall("detail", <<thr[t].item, -1>>, hit)]]
  /\ UNCHANGED <<now, catalog, pager, list_cache, pagination_cache, nextObj, budget, hist, img, proxy_vars>>

\* get_gallery_detail_data's body, lines 308-321: None when the fetch fails or
\* the parsed dict is empty
detail_body(t, outcome) ==
  /\ thr[t].pc = "detail_body"
  /\ thr' = [thr EXCEPT ![t] =
       [@ EXCEPT !.inside = "", !.pc = "detail_store",
                 !.detail = IF outcome = "ok" THEN DetailValue(TRUE, thr[t].item[2])
                            ELSE NoDetail,
                 !.fetches = @ + 1,
                 !.gcall = [@ EXCEPT !.fetched = TRUE]]]
  /\ UNCHANGED <<now, catalog, pager, list_cache, pagination_cache, gallery_cache, nextObj, budget, hist, img, proxy_vars>>

\* get_gallery_detail_data: "cache[k] = v; return v"
detail_store(t) ==
  /\ thr[t].pc = "detail_store"
  /\ LET k == DetailKey(thr[t].item[1], thr[t].item[2],
                        RequestHeaders(thr[t].cookie), thr[t].builder)
     IN  /\ gallery_cache' = TTLSetItem(gallery_cache, k, thr[t].detail, now,
                                        GalleryTTL, GalleryMaxSize)
         /\ hist' = [hist EXCEPT !.gstore = GStored(k, thr[t].detail.ok)]
         /\ thr' = [thr EXCEPT ![t] = [@ EXCEPT !.inside = "", !.pc = thr[t].ret]]
  /\ UNCHANGED <<now, catalog, pager, list_cache, pagination_cache, nextObj, budget, img, proxy_vars>>

\* /comic/<id>, lines 716-736
comic_ret(t) ==
  /\ thr[t].pc = "comic_ret"
  /\ thr' = [thr EXCEPT ![t] =
       IF ~thr[t].detail.ok
       THEN Responded(t, Response(t, 500, <<>>, FALSE, NoneId))
       ELSE Responded(t, [Response(t, 200, <<>>, FALSE, NoneId) EXCEPT !.title = thr[t].detail.title])]
  /\ UNCHANGED <<now, catalog, pager, list_cache, pagination_cache, gallery_cache, nextObj, budget, hist, img, proxy_vars>>

\* /photo/<id>/<chapter>, lines 754-769
photo_ret(t) ==
  /\ thr[t].pc = "photo_ret"
  /\ thr' = [thr EXCEPT ![t] =
       Responded(t, [Response(t, 200, <<>>, FALSE, NoneId) EXCEPT
                       !.page = thr[t].chapter,
                       !.title = IF thr[t].detail.ok THEN thr[t].detail.title ELSE "",
                       !.images = thr[t].images.list])]
  /\ UNCHANGED <<now, catalog, pager, list_cache, pagination_cache, gallery_cache, nextObj, budget, hist, img, proxy_vars>>

-----------------------------------------------------------------------------
(* Python floats (IEEE 754 binary64) for line 275.  A positive float is    *)
(* [m, f]: the bits of its significand, most significant first and at most *)
(* 53 of them, and the number f of those bits that follow the binary       *)
(* point; its value is m / 2^f.                                            *)

MantissaBits == 53

\* the binary digits of a natural number, most significant first
RECURSIVE BinaryOf(_)
BinaryOf(n) == IF n = 0 THEN << >> ELSE Append(BinaryOf(n \div 2), n % 2)

RECURSIVE BitsValue(_)
BitsValue(B) ==
  IF B = << >> THEN 0 ELSE 2 * BitsValue(SubSeq(B, 1, Len(B) - 1)) + B[Len(B)]

\* B + 1; one bit longer when B is all ones
RECURSIVE BitsIncrement(_)
BitsIncrement(B) ==
  IF B = << >> THEN <<1>>
  ELSE IF B[Len(B)] = 0 THEN [B EXCEPT ![Len(B)] = 1]
  ELSE Append(BitsIncrement(SubSeq(B, 1, Len(B) - 1)), 0)

\* round-to-nearest, ties-to-even, of the exact value B / 2^f (plus a non-zero
\* tail below the last bit of B when sticky) to 53 significant bits
RoundToDouble(B, f, sticky) ==
  IF Len(B) <= MantissaBits THEN [m |-> B, f |-> f]
  ELSE LET keep == SubSeq(B, 1, MantissaBits)
           guard == B[MantissaBits + 1]
           rest == sticky \/ \E i \in (MantissaBits + 2)..Len(B) : B[i] = 1
           drop == Len(B) - MantissaBits
           up == guard = 1 /\ (rest \/ keep[MantissaBits] = 1)
           r == IF up THEN BitsIncrement(keep) ELSE keep
       IN  IF Len(r) > MantissaBits
           THEN [m |-> SubSeq(r, 1, MantissaBits), f |-> f - drop - 1]
           ELSE [m |-> r, f |-> f - drop]

\* long division: the next bit of the quotient from the remainder r < b
RECURSIVE DivideBits(_, _, _, _)
DivideBits(r, b, B, f) ==
  IF r = 0 \/ Len(B) > MantissaBits THEN RoundToDouble(B, f, r # 0)
  ELSE LET bit == IF 2 * r >= b THEN 1 ELSE 0
       IN  DivideBits(2 * r - bit * b, b,
                      IF B = << >> /\ bit = 0 THEN B ELSE Append(B, bit), f + 1)

\* a / b for ints a, b >= 1: int.__truediv__, correctly rounded
FloatDivide(a, b) == DivideBits(a % b, b, BinaryOf(a \div b), 0)

\* the bits of B * h + carry, from the least significant bit up
RECURSIVE MultiplyBits(_, _, _)
MultiplyBits(B, h, carry) ==
  IF B = << >> THEN BinaryOf(carry)
  ELSE LET t == B[Len(B)] * h + carry
       IN  IF t % 2 = 0
           THEN Append(MultiplyBits(SubSeq(B, 1, Len(B) - 1), h, t \div 2), 0)
           ELSE Append(MultiplyBits(SubSeq(B, 1, Len(B) - 1), h, t \div 2), 1)

\* h * x for an int h >= 1 and a float x: the exact product, rounded
IntTimesFloat(h, x) == RoundToDouble(MultiplyBits(x.m, h, 0), x.f, FALSE)

\* int(x): truncation (the integer part of every float of the model is below 2^31)
IntOfFloat(x) ==
  IF Len(x.m) - x.f <= 0 THEN 0 ELSE BitsValue(SubSeq(x.m, 1, Len(x.m) - x.f))

\* line 275: ratio = max_width / original_width;
\*           new_height = int(original_height * ratio)
new_height(original_width, original_height, max_width) ==
  IntOfFloat(IntTimesFloat(original_height, FloatDivide(max_width, original_width)))

\* lines 273-276: the size after the resize step.  A resize to a width or a
\* height below 1 makes Image.resize raise; the size is returned as computed
new_size(original_width, original_height, max_width) ==
  IF original_width > max_width
  THEN <<max_width,
         IF max_width >= 1 THEN new_height(original_width, original_height, max_width) ELSE 0>>
  ELSE <<original_width, original_height>>

-----------------------------------------------------------------------------
(* /image/proxy, lines 772-793, get_processed_image_data under             *)
(* @cached(cache=image_proxy_cache), lines 361-372, and                    *)
(* ImageProcessor.process_and_compress, lines 264-289.                     *)

\* a query parameter of request.args: absent, a string that int() rejects, or
\* the decimal form of value
Absent == [present |-> FALSE, int |-> FALSE, value |-> 0]
NotInt == [present |-> TRUE, int |-> FALSE, value |-> 0]
Arg(v) == [present |-> TRUE, int |-> TRUE, value |-> v]

\* request.args of a request; url "" is an absent or empty url
Args(url, w, q, crop_x, crop_y, crop_w, crop_h) ==
  [url |-> url, w |-> w, q |-> q,
   crop_x |-> crop_x, crop_y |-> crop_y, crop_w |-> crop_w, crop_h |-> crop_h]

NoArgs == Args("", Absent, Absent, Absent, Absent, Absent, Absent)

\* the defaults of lines 778 and 779
DefaultWidth == 400
DefaultQuality == 50

\* crop_params: None, or the tuple (x, y, w, h)
NoCrop == [some |-> FALSE, x |-> 0, y |-> 0, w |-> 0, h |-> 0]
Crop(x, y, w, h) == [some |-> TRUE, x |-> x, y |-> y, w |-> w, h |-> h]

\* lines 782-785: the tuple, None, or the 400 of a KeyError / ValueError
CropOf(args) ==
  IF ~args.crop_x.present THEN [ok |-> TRUE, crop |-> NoCrop]
  ELSE IF \A a \in {args.crop_x, args.crop_y, args.crop_w, args.crop_h} : a.present /\ a.int
  THEN [ok |-> TRUE, crop |-> Crop(args.crop_x.value, args.crop_y.value,
                                  args.crop_w.value, args.crop_h.value)]
  ELSE [ok |-> FALSE, crop |-> NoCrop]

\* line 780: max(1, min(100, quality))
ClampQuality(q) == IF q > 100 THEN 100 ELSE IF q < 1 THEN 1 ELSE q

\* an image of the origin: bytes that Image.open decodes to width x height, or
\* bytes that are no image (valid = FALSE)
SourceImage(valid, width, height) == [valid |-> valid, width |-> width, height |-> height]

\* what get_processed_image_data returns: (compressed_bytes, info), or None
\* (ok = FALSE).  The bytes are identified by what was encoded.
NoneData ==
  [ok |-> FALSE, original_size |-> <<0, 0>>, compressed_size |-> <<0, 0>>,
   bytes |-> [url |-> "", crop |-> NoCrop, size |-> <<0, 0>>, quality |-> 0]]

Processed(url, crop_params, original, size, quality) ==
  [ok |-> TRUE, original_size |-> original, compressed_size |-> size,
   bytes |-> [url |-> url, crop |-> crop_params, size |-> size, quality |-> quality]]

\* ImageProcessor.process_and_compress, lines 267-289: crop, then the resize from
\* the size of the cropped image.  Image.crop returns an image of the size of the
\* box wherever the box lies; an empty or inverted box, a resize below 1 pixel and
\* bytes that do not decode raise, and line 289 returns None
\* (process_resize_first: the variant that scales the source before it crops)
process_resize_first(url, image, max_width, quality, crop_params) ==
  IF ~image.valid THEN NoneData
  ELSE LET scaled == new_size(image.width, image.height, max_width)
           size == IF crop_params.some THEN <<crop_params.w, crop_params.h>> ELSE scaled
       IN  IF scaled[1] < 1 \/ scaled[2] < 1 \/ size[1] < 1 \/ size[2] < 1 THEN NoneData
           ELSE Processed(url, crop_params, <<image.width, image.height>>, size, quality)
process_and_compress(url, image, max_width, quality, crop_params) ==
  IF ~image.valid THEN NoneData
  ELSE LET original == IF crop_params.some THEN <<crop_params.w, crop_params.h>>
                       ELSE <<image.width, image.height>>
       IN  IF original[1] < 1 \/ original[2] < 1 THEN NoneData
           ELSE LET size == new_size(original[1], original[2], max_width)
                IN  IF size[1] < 1 \/ size[2] < 1 THEN NoneData
                    ELSE Processed(url, crop_params, original, size, quality)

\* the arguments of a call of get_processed_image_data
ProxyCall(url, headers, max_width, quality, crop_params) ==
  [url |-> url, headers |-> headers, max_width |-> max_width, quality |-> quality,
   crop_params |-> crop_params]

\* cachetools.keys.hashkey(url, headers, max_width, quality, crop_params)
\* (ProxyKeyNoQuality: the variant whose key leaves the quality out)
ProxyKeyNoQuality(url, headers, max_width, quality, crop_params) ==
  <<url, headers, max_width, 0, crop_params>>
ProxyKey(url, headers, max_width, quality, crop_params) ==
  <<url, headers, max_width, quality, crop_params>>

\* a value of image_proxy_cache: the returned data, the call that computed it, and
\* why it is None ("fetch": requests.get raised, "transform": process_and_compress
\* returned None)
ProxyValue(data, src, cause) == [data |-> data, src |-> src, cause |-> cause]

NoProxyCall == ProxyCall("", RequestHeaders(""), 0, 0, NoCrop)
NoProxyValue == ProxyValue(NoneData, NoProxyCall, "")

\* the response of /image/proxy
ProxyResponse(status, error, data) ==
  [status |-> status, error |-> error, bytes |-> data.bytes,
   original_size |-> data.original_size, compressed_size |-> data.compressed_size]

NoProxyResponse == ProxyResponse(0, "", NoneData)

\* the source URLs of the model: an image, and bytes that are no image
ImageUrls == {"img", "bad"}

\* no download yet
NoDownload == [at |-> -1, src |-> NoProxyCall]

\* what the handler recorded of its call of get_processed_image_data: whether the
\* cache answered, whether the origin was asked, when, and the last successful
\* download of the same URL before
NoProxyRun == [hit |-> FALSE, fetched |-> FALSE, at |-> -1, prev |-> NoDownload]

\* no failure of this kind has been answered yet
NoFailure == [seen |-> FALSE, data |-> NoneData, resp |-> NoProxyResponse]

IdleProxy ==
  [pc |-> "idle", cookie |-> "", args |-> NoArgs, call |-> NoProxyCall,
   result |-> NoProxyValue, resp |-> NoProxyResponse, run |-> NoProxyRun,
   downloaded |-> [u \in ImageUrls |-> NoDownload],
   failed |-> [c \in {"fetch", "transform"} |-> NoFailure]]

\* lines 774-787: the parameters, up to the call of get_processed_image_data
image_proxy(cookie, args) ==
  /\ px.pc = "idle"
  /\ budget > 0
  /\ budget' = budget - 1
  /\ LET bad_int == (args.w.present /\ ~args.w.int) \/ (args.q.present /\ ~args.q.int)
         max_width == IF args.w.present THEN args.w.value ELSE DefaultWidth
         quality == ClampQuality(IF args.q.present THEN args.q.value ELSE DefaultQuality)
         c == CropOf(args)
         start == [px EXCEPT !.cookie = cookie, !.args = args, !.call = NoProxyCall,
                             !.result = NoProxyValue, !.resp = NoProxyResponse,
                             !.run = NoProxyRun]
     IN  px' = IF args.url = ""
               THEN [start EXCEPT !.resp = ProxyResponse(400, "missing url", NoneData)]
               ELSE IF bad_int
               THEN [start EXCEPT !.resp = ProxyResponse(500, "server error", NoneData)]
               ELSE IF ~c.ok
               THEN [start EXCEPT !.resp = ProxyResponse(400, "invalid crop", NoneData)]
               ELSE [start EXCEPT !.pc = "proxy_lookup",
                                  !.call = ProxyCall(args.url, RequestHeaders(cookie),
                                                     max_width, quality, c.crop)]
  /\ UNCHANGED <<now, catalog, pager, list_cache, pagination_cache, gallery_cache, thr, nextObj,
                 hist, img, image_proxy_cache, origin_image>>

\* the key of the handler's call
ProxyKeyOf(call) ==
  ProxyKey(call.url, call.headers, call.max_width, call.quality, call.crop_params)

\* get_processed_image_data: "return cache[k]"
proxy_lookup ==
  /\ px.pc = "proxy_lookup"
  /\ LET k == ProxyKeyOf(px.call)
         hit == TTLHit(image_proxy_cache, k, now)
     IN  /\ image_proxy_cache' = TTLTouch(image_proxy_cache, k)
         /\ px' = [px EXCEPT !.pc = IF hit THEN "proxy_ret" ELSE "proxy_body",
                             !.result = IF hit THEN TTLValue(image_proxy_cache, k) ELSE @,
                             !.run = [@ EXCEPT !.hit = hit]]
  /\ UNCHANGED <<now, catalog, pager, list_cache, pagination_cache, gallery_cache, thr, nextObj,
                 budget, hist, img, origin_image>>

\* the body, lines 364-372: requests.get of the source, then process_and_compress
proxy_body(ok) ==
  /\ px.pc = "proxy_body"
  /\ LET c == px.call
         data == process_and_compress(c.url, origin_image[c.url], c.max_width,
                                      c.quality, c.crop_params)
     IN  px' = [px EXCEPT
           !.pc = "proxy_store",
           !.result = IF ~ok THEN ProxyValue(NoneData, c, "fetch")
                      ELSE ProxyValue(data, c, IF data.ok THEN "" ELSE "transform"),
           !.run = [@ EXCEPT !.fetched = TRUE, !.at = now, !.prev = px.downloaded[c.url]],
           !.downloaded = IF ok THEN [@ EXCEPT ![c.url] = [at |-> now, src |-> c]] ELSE @]
  /\ UNCHANGED <<now, catalog, pager, list_cache, pagination_cache, gallery_cache, thr, nextObj,
                 budget, hist, img, image_proxy_cache, origin_image>>

\* get_processed_image_data: "cache[k] = v; return v"
proxy_store ==
  /\ px.pc = "proxy_store"
  /\ image_proxy_cache' = TTLSetItem(image_proxy_cache, ProxyKeyOf(px.call), px.result, now,
                                     ProxyTTL, ProxyMaxSize)
  /\ px' = [px EXCEPT !.pc = "proxy_ret"]
  /\ UNCHANGED <<now, catalog, pager, list_cache, pagination_cache, gallery_cache, thr, nextObj,
                 budget, hist, img, origin_image>>

\* lines 788-792
proxy_ret ==
  /\ px.pc = "proxy_ret"
  /\ LET r == px.result
         resp == IF ~r.data.ok THEN ProxyResponse(500, "cannot download or process", NoneData)
                 ELSE ProxyResponse(200, "", r.data)
     IN  px' = [px EXCEPT
           !.pc = "idle",
           !.resp = resp,
           !.failed = IF r.cause = "" THEN @
                      ELSE [@ EXCEPT ![r.cause] = [seen |-> TRUE, data |-> r.data,
                                                   resp |-> resp]]]
  /\ UNCHANGED <<now, catalog, pager, list_cache, pagination_cache, gallery_cache, thr, nextObj,
                 budget, hist, img, image_proxy_cache, origin_image>>

-----------------------------------------------------------------------------
(* A method of a TTLCache is Python code that runs for a while: a thread   *)
(* enters it (inside names the cache) and the step that follows carries    *)
(* out its effect and leaves it.  Neither @cached(cache=...) nor the routes *)
(* give or take a lock.                                                    *)

\* the cache that the next step of the thread reads or writes, "" when none
CacheAhead(t) ==
  LET r == thr[t].result
  IN  IF thr[t].pc \in {"list_lookup", "list_store"} THEN "list_cache"
      ELSE IF thr[t].pc \in {"images_lookup", "images_store", "detail_lookup", "detail_store"}
      THEN "gallery_cache"
      ELSE IF \/ thr[t].pc = "final_get"
              \/ thr[t].pc = "walk" /\ thr[t].p > 1
              \/ thr[t].pc \in {"walk_ret", "final_ret"} /\ r.ok /\ r.next_id # NoneId
      THEN "pagination_cache"
      ELSE ""

\* the thread calls into the cache: __getitem__, get or __setitem__ begins
cache_enter(t) ==
  /\ thr[t].inside = ""
  /\ CacheAhead(t) # ""
  /\ thr' = [thr EXCEPT ![t] = [@ EXCEPT !.inside = CacheAhead(t)]]
  /\ UNCHANGED <<now, catalog, pager, list_cache, pagination_cache, gallery_cache, nextObj, budget, hist, img, proxy_vars>>

-----------------------------------------------------------------------------
\* time.monotonic() advances
Tick ==
  /\ now < MaxTime
  /\ now' = now + 1
  /\ UNCHANGED <<catalog, pager, list_cache, pagination_cache, gallery_cache, thr, nextObj, budget, hist, img, proxy_vars>>

\* the image of the origin under "img" is width x height; "bad" is no image
InitProxy(width, height) ==
  /\ image_proxy_cache = <<>>
  /\ px = IdleProxy
  /\ origin_image = [u \in ImageUrls |-> SourceImage(u = "img", width, height)]

\* the catalogs of the two origins: exhentai.org holds MaxCatalog galleries
Catalogs == {c \in [Domains -> 1..MaxCatalog] : c[SITE_EX] = MaxCatalog}

Pagers == {"next=", "page="}

InitOrigin(requests, pages, catalogs, pagers) ==
  /\ now = 0
  /\ budget = requests
  /\ catalog \in catalogs
  /\ pager \in pagers
  /\ list_cache = <<>>
  /\ pagination_cache = <<>>
  /\ gallery_cache = <<>>
  /\ thr = [t \in Threads |-> IdleThread]
  /\ nextObj = 0
  /\ hist = [lstore |-> [x \in ListKeys |-> NoStore],
             gstore |-> [x \in GalleryIds |-> NoStore]]
  /\ \E atags \in pages : img = ImagesIdle(atags)

\* the origin's pagers link with ?next=<id>
InitCore(requests, pages, catalogs) == InitOrigin(requests, pages, catalogs, {"next="})

InitWith(requests, pages) == InitCore(requests, pages, Catalogs) /\ InitProxy(4, 3)

\* the gallery's preview page has no <a> tag
NoPreviews == {<< >>}

Init == InitWith(MaxRequests, NoPreviews)

\* the requests of a client that walks and jumps through one chain
InitChain == InitWith(MaxChainRequests, NoPreviews)

\* the steps of a thread that serves /search to the clients, for the pages,
\* reached under the hosts
SearchFrom(t, clients, pages, hosts) ==
  \/ \E cookie \in clients, keyword \in Keywords, page \in pages, host \in hosts :
       search(t, cookie, keyword, page, host)
  \/ search_walk(t)
  \/ search_walk_ret(t)
  \/ search_final_get(t)
  \/ search_final_ret(t)
  \/ search_results(t)
  \/ list_lookup(t)
  \/ \E ok \in BOOLEAN : list_fetch(t, ok)
  \/ list_store(t)

SearchSteps(t, clients, pages) == SearchFrom(t, clients, pages, OneHost)

SearchStep(t, clients) == SearchSteps(t, clients, 0..MaxPage)

\* the clock advances while no request is being served
TickIdle ==
  /\ \A t \in Threads : thr[t].pc = "idle"
  /\ Tick

\* one request thread, any client, the clock advancing at any step
NextSeq == Tick \/ SearchStep(1, Cookies)

SpecSeq == Init /\ [][NextSeq]_vars

\* one request thread, the clients of one origin (e-hentai.org), requests that
\* take no time
NextChain == TickIdle \/ SearchStep(1, {"", "sid=1"})

SpecChain == InitChain /\ [][NextChain]_vars

\* two request threads and one client
NextConc == Tick \/ \E t \in Threads : SearchStep(t, {""})

SpecConc == Init /\ [][NextConc]_vars


GalleryStep(t, clients) ==
  \/ \E cookie \in clients, item \in Items : gallery_detail(t, cookie, item)
  \/ \E cookie \in clients, item \in Items, chapter \in {0, 1} :
       gallery_images(t, cookie, item, chapter)
  \/ images_lookup(t)
  \/ \E ok \in BOOLEAN : images_body(t, ok)
  \/ images_store(t)
  \/ photo_mid(t)
  \/ detail_lookup(t)
  \/ \E outcome \in {"ok", "fail", "empty"} : detail_body(t, outcome)
  \/ detail_store(t)
  \/ comic_ret(t)
  \/ photo_ret(t)

\* one request thread serving /comic and /photo to one client; the preview page
\* of the origin has two <a> tags, the first with or without the style
InitGallery == InitWith(MaxRequests, {<<TRUE, TRUE>>, <<FALSE, TRUE>>})

NextGallery == Tick \/ GalleryStep(1, {""})

SpecGallery == InitGallery /\ [][NextGallery]_vars

\* one call of get_gallery_images_data, for any preview page
InitImages == InitWith(0, PreviewPages)

NextImages ==
  \/ \E ok \in BOOLEAN : images_start(ok)
  \/ task_start
  \/ \E j \in 1..MaxLinks, outcome \in {"ok", "none", "exc"} : task_finish(j, outcome)
  \/ \E j \in 1..MaxLinks : images_collect(j)
  \/ images_return

SpecImages == InitImages /\ [][NextImages]_vars

\* the same call when the threads of the process are scheduled fairly: the preview
\* page is fetched (requests.get has timeout=REQUEST_TIMEOUT), a free worker takes
\* the next task, the as_completed loop takes every finished future, and line 358
\* is reached.  When a task's own fetch ends is left to the origin.
SpecImagesFair ==
  /\ SpecImages
  /\ WF_vars(\E ok \in BOOLEAN : images_start(ok))
  /\ WF_vars(task_start)
  /\ \A j \in 1..MaxLinks : WF_vars(images_collect(j))
  /\ WF_vars(images_return)

\* a search without hits on e-hentai.org: its listing page has no table
EmptyCatalogs == {[d \in Domains |-> IF d = SITE_E THEN 0 ELSE MaxCatalog]}

InitListing == InitCore(MaxRequests, NoPreviews, EmptyCatalogs) /\ InitProxy(4, 3)

\* one request thread, a client of each origin
NextListing == Tick \/ SearchStep(1, {"", "igneous=EX"})

SpecListing == InitListing /\ [][NextListing]_vars

\* one request thread and one client of e-hentai.org, whose pagers are of either
\* form
InitPager == InitOrigin(MaxRequests, NoPreviews, Catalogs, Pagers) /\ InitProxy(4, 3)

NextPager == Tick \/ SearchStep(1, {""})

SpecPager == InitPager /\ [][NextPager]_vars

ProxyStep(clients, requests) ==
  \/ \E cookie \in clients, args \in requests : image_proxy(cookie, args)
  \/ proxy_lookup
  \/ \E ok \in BOOLEAN : proxy_body(ok)
  \/ proxy_store
  \/ proxy_ret

\* the crop parameters of a request: none, or all four
NoCropArgs == <<Absent, Absent, Absent, Absent>>
CropArgs(x, y, w, h) == <<Arg(x), Arg(y), Arg(w), Arg(h)>>

\* well-formed requests for the two sources: w absent or 2, q absent, 40 or 150,
\* no crop or the crop (0, 0, 2, 2)
TransformArgs ==
  {Args(u, w, q, c[1], c[2], c[3], c[4]) :
     u \in ImageUrls, w \in {Absent, Arg(2)}, q \in {Absent, Arg(40), Arg(150)},
     c \in {NoCropArgs, CropArgs(0, 0, 2, 2)}}

\* the handler of /image/proxy serving one client: the source image is 4 x 3
NextProxy == Tick \/ ProxyStep({""}, TransformArgs)

OneCatalog == {[d \in Domains |-> MaxCatalog]}

InitProxyRequests == InitCore(MaxRequests, NoPreviews, OneCatalog) /\ InitProxy(4, 3)

\* two request threads that serve the first two pages to one client, with the
\* calls into the caches as steps of their own
RacePages == {1, 2}

NextRace == Tick \/ \E t \in Threads : (SearchSteps(t, {""}, RacePages) \/ cache_enter(t))

SpecRace == InitProxyRequests /\ [][NextRace]_vars

\* two request threads that serve the first two pages to one client that
\* reaches the server under two hosts
NextHosts == Tick \/ \E t \in Threads : SearchFrom(t, {""}, RacePages, ApiHosts)

SpecHosts == InitProxyRequests /\ [][NextHosts]_vars

SpecProxy == InitProxyRequests /\ [][NextProxy]_vars

\* requests with every combination of absent, non-integer and integer crop
\* parameters, with and without url
AnyCropArgs ==
  {Args(u, w, Absent, cx, cy, cw, ch) :
     u \in {"", "img"}, w \in {Absent, NotInt},
     cx \in {Absent, NotInt, Arg(1)}, cy \in {Absent, NotInt, Arg(1)},
     cw \in {Absent, NotInt, Arg(1)}, ch \in {Absent, NotInt, Arg(1)}}

InitProxyArgs == InitCore(1, NoPreviews, OneCatalog) /\ InitProxy(4, 3)

NextProxyArgs == Tick \/ ProxyStep({""}, AnyCropArgs)

SpecProxyArgs == InitProxyArgs /\ [][NextProxyArgs]_vars

\* the sizes of the source image of the resize cases, the widths asked for and
\* the crops
SourceSizes == ((1..MaxDim) \X (1..MaxDim)) \cup {<<1000, 800>>, <<464, 580>>}
ResizeWidths == (1..MaxDim) \cup {50, 400, 1200}
ResizeCrops == {NoCropArgs, CropArgs(10, 20, 100, 50), CropArgs(0, 0, 3, 2)}

ResizeArgs ==
  {Args("img", Arg(w), Absent, c[1], c[2], c[3], c[4]) : w \in ResizeWidths, c \in ResizeCrops}

\* one request for the image of the origin, of any of the sizes
InitResize ==
  /\ InitCore(1, NoPreviews, OneCatalog)
  /\ \E size \in SourceSizes : InitProxy(size[1], size[2])

NextResize == ProxyStep({""}, ResizeArgs)

SpecResize == InitResize /\ [][NextResize]_vars

\* requests for the image that differ in the width
WidthArgs ==
  {Args("img", w, Absent, Absent, Absent, Absent, Absent) : w \in {Absent, Arg(2), Arg(3)}}

\* the clock advances between two requests
TickBetween ==
  /\ px.pc = "idle"
  /\ TickIdle

\* one worker that serves /search, /comic, /photo and /image/proxy to one client,
\* a request at a time: every cache receives more inserts than it holds
InitCaches == InitCore(MaxChainRequests, NoPreviews, OneCatalog) /\ InitProxy(4, 3)

NextCaches ==
  \/ TickBetween
  \/ px.pc = "idle" /\ (SearchStep(1, {""}) \/ GalleryStep(1, {""}))
  \/ thr[1].pc = "idle" /\ ProxyStep({""}, WidthArgs)

SpecCaches == InitCaches /\ [][NextCaches]_vars

\* requests for the two sources with the default width and quality
PlainArgs == {Args(u, Absent, Absent, Absent, Absent, Absent, Absent) : u \in ImageUrls}

\* one worker that serves /search and /image/proxy to clients with and without a
\* Cookie header, a request at a time
NextClients ==
  \/ TickBetween
  \/ px.pc = "idle" /\ SearchSteps(1, Cookies, RacePages)
  \/ thr[1].pc = "idle" /\ ProxyStep(Cookies, PlainArgs)

SpecClients == Init /\ [][NextClients]_vars


-----------------------------------------------------------------------------
(* The cursor chain of /search *)

Responses == {thr[t].resp : t \in Threads}
Ok200 == {r \in Responses : r.status = 200}
PaginationEntries == {pagination_cache[i] : i \in 1..Len(pagination_cache)}
ListEntries == {list_cache[i] : i \in 1..Len(list_cache)}

\* C1: every successful /search response for a page N > 1 was obtained from a
\* request that carried the cursor link of page N-1; only page 1 is requested
\* without a continuation token, also when links expire or are evicted between
\* the chain walk and the final lookup.
C1_LaterPagesCarryACursor ==
  \A r \in Ok200 : r.page > 1 => r.next_used # NoneId

\* C2: every stored link of a page p >= 1 was parsed from the response to the
\* request built from the link of page p-1, or from the request without a cursor
\* when p = 1; no link comes from the response of another page.
C2_LinksComeFromThePredecessor ==
  \A e \in PaginationEntries :
    e.key[2] >= 1 => e.value.from = e.key[2] - 1

\* C4: a request for a page beyond the last page of the catalog never returns a
\* listing.
C4_NoListingBeyondTheLastPage ==
  \A r \in Responses :
    (r.status # 0 /\ r.page > catalog[BuilderDomain(r.cookie)]) => r.status # 200

\* C3: for the clients of one origin, whatever pages were requested before and in
\* whatever order, every stored link of a page p is the cursor of page p of the
\* catalog, every successful response for page N is page N of the catalog and was
\* built from the link of page N-1, and a request that found the store cold
\* leaves the links of the pages before N that the capacity holds.
C3_ChainReplayIsOrderIndependent ==
  LET n == catalog[SITE_E]
  IN  /\ \A e \in PaginationEntries :
           e.key[2] >= 1 => /\ e.value.next_id = CursorOfPage(n, e.key[2])
                            /\ e.value.next_id # NoneId
      /\ \A r \in Ok200 :
           r.page >= 1 => /\ r.page <= n
                          /\ r.galleries = <<n - r.page + 1>>
                          /\ r.next_used = CursorOfPage(n, r.page - 1)
      /\ \A r \in Ok200 :
           (r.page >= 2 /\ r.at = now) =>
             /\ TTLContains(pagination_cache, PaginationKey(r.keyword, r.page - 1), now)
             /\ r.cold => \A p \in 1..(r.page - 1) :
                            p >= r.page - PaginationMaxSize + (IF r.has_more THEN 1 ELSE 0)
                              => TTLContains(pagination_cache, PaginationKey(r.keyword, p), now)

\* a request for page 3 that found the store cold walked the chain and succeeded
C3_Witness ==
  \E r \in Ok200 : r.page = 3 /\ r.cold /\ r.fetches = 3

-----------------------------------------------------------------------------
(* The listing cache *)

Calls == {thr[t].call : t \in Threads}

\* C7 (as amended): with one request thread, a call of get_gallery_list_data made
\* within the TTL of the last store under the same key, the entry not having been
\* evicted for capacity since, returns the stored value without an origin fetch;
\* a call made once the TTL has elapsed fetches again.
C7_HitWithinTTLUnlessEvicted ==
  \A c \in Calls :
    (c.at >= 0 /\ c.prevAt >= 0) =>
      /\ (c.at < c.prevAt + ListTTL /\ ~c.prevEvicted) => (c.hit /\ ~c.fetched /\ c.same)
      /\ (c.at >= c.prevAt + ListTTL) => (~c.hit /\ (c.done => c.fetched))

\* C7 as stated: any two calls with the same key within the TTL fetch at most once
C7_HitWithinTTL ==
  \A c \in Calls :
    (c.at >= 0 /\ c.prevAt >= 0 /\ c.at < c.prevAt + ListTTL) => (c.hit /\ ~c.fetched)

\* a second call within the TTL was served from the cache
C7_Witness ==
  \E c \in Calls : c.prevAt >= 0 /\ c.at < c.prevAt + ListTTL /\ c.hit /\ ~c.prevEvicted

\* C8: a failed fetch is never stored: no cache entry holds a failure
C8_NoFailureIsStored ==
  \A e \in ListEntries : e.value.ok

-----------------------------------------------------------------------------
(* The image resolver *)

ImagesDone == img.pc = "done" /\ ~img.none

\* the tasks of the call that ended with an image URL
Succeeded == {j \in 1..Len(img.task) : img.task[j] = "got"}

\* C5: whatever the order in which the tasks complete, the list that
\* get_gallery_images_data returns is sorted by strictly ascending index.
C5_ResultSortedByIndex ==
  ImagesDone =>
    /\ \A i, j \in 1..Len(img.result) : i < j => img.result[i].index < img.result[j].index
    /\ img.result = ResolveImages(img.preview_list,
                                  [j \in 1..Len(img.task) |-> IF img.task[j] = "got" THEN "ok" ELSE "none"])

\* a call returned two entries or more whose futures were collected in descending
\* order of index
C5_Witness ==
  /\ ImagesDone
  /\ Len(img.result) >= 2
  /\ \A i, j \in 1..Len(img.order) : i < j => img.order[i] > img.order[j]

\* C6: the result holds exactly one entry for each descriptor whose task succeeded
\* and none for a descriptor whose task failed, each with the descriptor's own
\* index, whatever indices the parser assigned.
C6_OneEntryPerSucceededDescriptor ==
  ImagesDone =>
    /\ {img.result[i].index : i \in 1..Len(img.result)} = {img.preview_list[j].index : j \in Succeeded}
    /\ Len(img.result) = Cardinality(Succeeded)

-----------------------------------------------------------------------------
(* The gallery cache *)

GCalls == {thr[t].gcall : t \in Threads}

\* C9: a request for an item (and page) that an earlier request stored within the
\* gallery TTL, and that has not been evicted since, is served from the cache and
\* fetches nothing from the origin.
C9_SecondRequestServedFromCache ==
  \A c \in GCalls :
    (c.at >= 0 /\ c.prevAt >= 0 /\ c.at < c.prevAt + GalleryTTL /\ ~c.prevEvicted) => c.hit

-----------------------------------------------------------------------------
(* The image proxy *)

\* the fields of a call that the spec's TransformRequest holds
TransformRequest(call) == <<call.url, call.max_width, call.quality, call.crop_params>>

ProxyEntries == {image_proxy_cache[i] : i \in 1..Len(image_proxy_cache)}

\* C11: a value of image_proxy_cache is returned only to a call whose source URL,
\* width, quality and crop rect (or its absence) equal those of the call that
\* computed it, and every entry is filed under the URL, width, quality and crop of
\* the call that computed it, so calls that differ in one of them share no entry.
C11_HitOnlyForEqualRequest ==
  /\ px.run.hit => TransformRequest(px.result.src) = TransformRequest(px.call)
  /\ \A e \in ProxyEntries :
       TransformRequest(e.value.src) = <<e.key[1], e.key[3], e.key[4], e.key[5]>>

\* a request was answered 200 from the cache
C11_Witness ==
  px.run.hit /\ px.pc = "idle" /\ px.resp.status = 200

\* C12: raw bytes are cached by source URL alone: a source that has been
\* downloaded is not downloaded again at the same instant (within any raw-fetch
\* TTL) for a request that differs in width, quality or crop.
C12_OneDownloadPerSource ==
  (px.run.fetched /\ px.run.prev.at >= 0 /\
   TransformRequest(px.run.prev.src) # TransformRequest(px.call))
     => px.run.at > px.run.prev.at

\* C13: a transform failure and a fetch failure never give the same result value
\* or the same response.
C13_FailureKindsDistinguishable ==
  (px.failed["fetch"].seen /\ px.failed["transform"].seen) =>
     /\ px.failed["fetch"].data # px.failed["transform"].data
     /\ px.failed["fetch"].resp # px.failed["transform"].resp

\* the crop parameters of the request that are present
CropGiven(args) == {a \in {"crop_x", "crop_y", "crop_w", "crop_h"} : args[a].present}

\* a non-empty proper subset of the four, or a present one that is no integer
CropMalformed(args) ==
  \/ CropGiven(args) # {} /\ CropGiven(args) # {"crop_x", "crop_y", "crop_w", "crop_h"}
  \/ \E a \in CropGiven(args) : ~args[a].int

\* C14: a request (with a url and a well-formed w and q) whose crop parameters are
\* a non-empty proper subset of the four, or hold a non-integer, is answered 400
\* and never reaches the cache or the origin.
C14_PartialCropRejected ==
  (px.args.url # "" /\ ~(px.args.w.present /\ ~px.args.w.int) /\ CropMalformed(px.args))
     => px.pc = "idle" /\ px.resp.status = 400 /\ ~px.run.fetched

\* C15: without a crop, a W x H source and M >= 1 give a W x H output when
\* W <= M, and an M x floor(H*M/W) output when W > M.
C15_ResizeKeepsAspect ==
  (px.resp.status = 200 /\ ~px.call.crop_params.some /\ px.call.max_width >= 1) =>
     LET W == origin_image[px.call.url].width
         H == origin_image[px.call.url].height
         M == px.call.max_width
     IN  px.resp.compressed_size = IF W > M THEN <<M, (H * M) \div W>> ELSE <<W, H>>

\* C16: with a crop (x, y, w, h) the image that is measured and resized is the
\* w x h crop, whatever the size of the source: the reported original size is
\* w x h and the output is the resize of w x h to the width asked for; the crop
\* (10, 20, 100, 50) with width 50 gives 50 x 25.
C16_CropBeforeResize ==
  (px.resp.status = 200 /\ px.call.crop_params.some) =>
     LET c == px.call.crop_params
     IN  /\ px.resp.original_size = <<c.w, c.h>>
         /\ px.resp.compressed_size = new_size(c.w, c.h, px.call.max_width)
         /\ (c = Crop(10, 20, 100, 50) /\ px.call.max_width = 50)
              => px.resp.compressed_size = <<50, 25>>

\* the 100 x 50 crop of the 1000 x 800 source was answered with a 50 x 25 image
C16_Witness ==
  /\ px.resp.status = 200
  /\ origin_image["img"] = SourceImage(TRUE, 1000, 800)
  /\ px.call.crop_params = Crop(10, 20, 100, 50)
  /\ px.call.max_width = 50
  /\ px.resp.compressed_size = <<50, 25>>

-----------------------------------------------------------------------------
(* Listing pages without structure *)

\* the origin's page for the URL has no table of galleries
NoStructure(url) == Below(catalog[url.base], url.next) = {}

-----------------------------------------------------------------------------
(* Stored chains *)

\* the keys of the links of the pages 1, 2, ...
PaginationKeys == {PaginationKey(keyword, page) : keyword \in Keywords, page \in 1..MaxPage}

\* C18: no step stores a different token under a key of pagination_cache whose
\* entry is live: a live link keeps its token for as long as it is stored.
C18_LinksNeverRewritten ==
  [][\A k \in PaginationKeys :
       (TTLContains(pagination_cache, k, now) /\ HasKey(pagination_cache', k)) =>
          TTLValue(pagination_cache', k).next_id = TTLValue(pagination_cache, k).next_id]_vars

-----------------------------------------------------------------------------
(* The pool of get_gallery_images_data *)

\* C19: once the preview page has been fetched and its tasks submitted, the call
\* returns a list whatever tasks fail: no failure ends the call early, every task
\* is run and collected, and every task that succeeded with an index inside the
\* list has its entry in the result.
C19_TaskFailuresAreIsolated ==
  (img.pc = "done" /\ img.task # << >>) =>
     /\ ~img.none
     /\ \A j \in 1..Len(img.task) : img.task[j] \in {"got", "lost"}
     /\ \A j \in Succeeded :
          img.preview_list[j].index < Len(img.preview_list) =>
             \E i \in 1..Len(img.result) : img.result[i].index = img.preview_list[j].index

\* a call returned the entry of a task that succeeded although a sibling failed
C19_Witness ==
  /\ img.pc = "done"
  /\ img.result # << >>
  /\ \E j \in 1..Len(img.task) : img.task[j] = "lost"

\* C20: at every moment of a call at most MAX_CONCURRENT_REQUESTS tasks are
\* running, however many descriptors the preview page has.
C20_AtMostMaxConcurrentInFlight ==
  Cardinality(Running) <= MAX_CONCURRENT_REQUESTS

\* the pool is full while descriptors wait
C20_Witness ==
  Cardinality(Running) = MAX_CONCURRENT_REQUESTS /\ Queued # {}

-----------------------------------------------------------------------------
(* The end of a call of get_gallery_images_data *)

\* the tasks of the call that have not been collected by the as_completed loop
Uncollected == {j \in 1..Len(img.task) : img.task[j] \notin {"got", "lost"}}

\* C21: get_gallery_images_data returns only when every submitted task has ended
\* and has been collected (none is left waiting, running or abandoned); if every
\* task's fetch ends at some time, the call returns; and a task that runs can end
\* whatever its siblings do, so a slow task holds back only the return.
C21_ReturnsAfterEveryTask ==
  /\ [](img.pc = "done" => Uncollected = {})
  /\ [](\A j \in Running : ENABLED task_finish(j, "ok"))
  /\ (\A j \in 1..MaxLinks : []<>(j \notin Running)) => <>(img.pc = "done")

\* a call of MaxLinks tasks returned, and the task collected last was the first
\* that was submitted
C21_Witness ==
  /\ img.pc = "done"
  /\ Len(img.task) = MaxLinks
  /\ Len(img.order) = MaxLinks
  /\ img.order[MaxLinks] = 1

-----------------------------------------------------------------------------
(* Concurrent calls of a cached fetch *)

\* the threads inside the body of get_gallery_list_data for the key k: the origin
\* has been or is being asked, and the result is not stored yet
InFlight(k) ==
  {t \in Threads : /\ thr[t].pc \in {"list_fetch", "list_store"}
                   /\ ListKey(thr[t].url, RequestHeaders(thr[t].cookie)) = k}

\* C22: a call of a cached fetch never waits for another thread that computes the
\* value of the same key: the lookup can always be made, a call that missed
\* always goes on to the origin fetch, and a call that returned without a hit
\* fetched from the origin itself.
C22_MissesAreNotSingleFlighted ==
  \A t \in Threads :
    /\ thr[t].pc = "list_lookup" => ENABLED list_lookup(t)
    /\ thr[t].pc = "list_fetch" => ENABLED list_fetch(t, TRUE)
    /\ (thr[t].pc \in {"walk_ret", "final_ret"} /\ ~thr[t].call.hit) => thr[t].call.fetched

\* both threads have fetched the page of the same key from the origin, and neither
\* result is stored
C22_Witness ==
  \E k \in ListKeys :
    /\ InFlight(k) = Threads
    /\ \A t \in Threads : thr[t].pc = "list_store" /\ thr[t].call.fetched
    /\ ~HasKey(list_cache, k)

\* C23: no two request threads are inside a method of the same cache at the same
\* time.
C23_CacheAccessesAreExclusive ==
  \A t, u \in Threads :
    (t # u /\ thr[t].inside # "") => thr[u].inside # thr[t].inside

-----------------------------------------------------------------------------
(* Capacity and eviction *)

\* the step from the cache c to cn keeps every live entry, or removes the least
\* recently used one of a full cache that holds no expired entry
EvictsOnlyTheOldest(c, cn, maxsize) ==
  \A i \in 1..Len(c) :
    (now < c[i].expires /\ ~HasKey(cn, c[i].key)) =>
       /\ i = 1
       /\ Len(c) = maxsize /\ Len(cn) = maxsize
       /\ \A j \in 1..Len(c) : now < c[j].expires

\* C24: no cache ever holds more entries than its capacity, and an insert
\* removes a live entry only from a full cache that holds no expired entry, and
\* then the least recently used one.
C24_CapacityAndEvictionOrder ==
  [][/\ Len(list_cache') <= ListMaxSize
     /\ Len(pagination_cache') <= PaginationMaxSize
     /\ Len(gallery_cache') <= GalleryMaxSize
     /\ Len(image_proxy_cache') <= ProxyMaxSize
     /\ EvictsOnlyTheOldest(list_cache, list_cache', ListMaxSize)
     /\ EvictsOnlyTheOldest(pagination_cache, pagination_cache', PaginationMaxSize)
     /\ EvictsOnlyTheOldest(gallery_cache, gallery_cache', GalleryMaxSize)
     /\ EvictsOnlyTheOldest(image_proxy_cache, image_proxy_cache', ProxyMaxSize)]_vars

\* image_proxy_cache is full of live entries and the entry of the first request is
\* no longer in it: the third insert evicted it
C24_Witness ==
  /\ Len(image_proxy_cache) = ProxyMaxSize
  /\ \A i \in 1..Len(image_proxy_cache) : now < image_proxy_cache[i].expires
  /\ budget = 0
  /\ px.pc = "idle" /\ px.run.fetched
  /\ \E w \in {DefaultWidth, 2, 3} :
        ~HasKey(image_proxy_cache, ProxyKey("img", RequestHeaders(""), w, DefaultQuality, NoCrop))

-----------------------------------------------------------------------------
(* The sizes that /image/proxy reports *)

\* C25: a 200 response reports as the original size the size of the source image
\* as it was fetched, whether or not a crop was asked for, and as the compressed
\* size the size of the image that was encoded.
C25_ReportsSourceDimensions ==
  px.resp.status = 200 =>
     /\ px.resp.original_size = <<origin_image[px.call.url].width,
                                  origin_image[px.call.url].height>>
     /\ px.resp.compressed_size = px.resp.bytes.size

-----------------------------------------------------------------------------
(* has_more and the stored link *)

\* C26: when a /search response for a page N >= 1 says has_more, the link of page
\* N is stored (and live) at the time of the response.
C26_HasMoreMeansLinkStored ==
  \A t \in Threads :
    LET r == thr[t].resp
    IN  (r.status = 200 /\ r.has_more /\ r.page >= 1 /\ r.at = now) =>
           TTLContains(pagination_cache, PaginationKey(r.keyword, r.page), now)

-----------------------------------------------------------------------------
(* Whose cursor a request carries *)

\* C27: whenever a request thread builds an origin URL with next=<id> from a
\* stored link, the link was stored while serving a request with the same Cookie
\* header, and so for the same origin domain.
C27_CursorStaysWithItsClient ==
  [][\A t \in Threads :
       (/\ thr[t].pc \in {"idle", "walk", "final_get"}
        /\ thr'[t].pc = "list_lookup"
        /\ thr'[t].url.next # NoneId) =>
          LET link == TTLValue(pagination_cache, PaginationKey(thr'[t].keyword, thr'[t].from))
          IN  /\ link.by = thr'[t].cookie
              /\ BuilderDomain(link.by) = thr'[t].url.base]_vars

-----------------------------------------------------------------------------
(* Clients and cached results *)

\* every value that a call of get_gallery_list_data or get_processed_image_data
\* returns, and every entry of list_cache and image_proxy_cache, was fetched with
\* the headers of the request it is returned to or filed under
ResultsFetchedWithOwnHeaders ==
  /\ \A t \in Threads :
       thr[t].pc \in {"walk_ret", "final_ret"} =>
          thr[t].result.src.headers = RequestHeaders(thr[t].cookie)
  /\ px.pc = "proxy_ret" => px.result.src.headers = RequestHeaders(px.cookie)
  /\ \A e \in ListEntries : e.value.src.headers = e.key[2]
  /\ \A e \in ProxyEntries : e.value.src.headers = e.key[2]

\* C28: a listing or an image that a call returns, from the cache or not, was
\* fetched from the origin with the Cookie header of the request that the call
\* serves (or without one, when that request has none), and the listing that a
\* /search response is made of was requested from the origin with nothing but
\* what the origin sent in reply to requests with that same Cookie header.
C28_ResponseFromOwnContentOnly ==
  /\ ResultsFetchedWithOwnHeaders
  /\ \A t \in Threads : thr[t].pc = "final_ret" => thr[t].by = thr[t].cookie

-----------------------------------------------------------------------------
(* Cached values and the routes' writes *)

\* the entry of c with the key and the object of e, when c has one
SameEntry(c, e) == {i \in 1..Len(c) : c[i].key = e.key /\ c[i].value.obj = e.value.obj}

\* a value that list_cache holds stays as it was stored
StoredValuesUnchanged ==
  [][\A i \in 1..Len(list_cache) :
       \A j \in SameEntry(list_cache', list_cache[i]) :
          list_cache'[j].value = list_cache[i].value]_vars

\* the cover_url of a /search response is built from the host URL of its request
CoversFromOwnHost ==
  \A t \in Threads :
    (thr[t].resp.status = 200 /\ thr[t].resp.galleries # <<>>) =>
       thr[t].resp.cover = thr[t].resp.host

\* C29: a step changes no value that list_cache holds (an entry is put, touched,
\* replaced or removed, never modified), and under any interleaving of the
\* request threads every /search response with a gallery carries a cover_url
\* built from the host URL of its own request.
C29_CachedValuesAreNeverModified ==
  StoredValuesUnchanged /\ []CoversFromOwnHost

-----------------------------------------------------------------------------
(* The size of the resized image *)

\* C30: a request without crop whose source was downloaded and decodes to an
\* image of at least 1 x 1, with an integer width that the route accepts, is
\* answered 200 with an image that is at least one pixel wide and high.
C30_ResizedImageHasAPixel ==
  (/\ px.pc = "idle" /\ px.resp.status \notin {0, 400}
   /\ px.result.cause # "fetch"
   /\ origin_image[px.call.url].valid
   /\ origin_image[px.call.url].width >= 1 /\ origin_image[px.call.url].height >= 1
   /\ ~px.call.crop_params.some)
     => /\ px.resp.status = 200
        /\ px.resp.compressed_size[1] >= 1
        /\ px.resp.compressed_size[2] >= 1

====
